---- MODULE Spec2Model ----
(***************************************************************************)
(* The Transition component of leptos (src/leptos/src/transition.rs).      *)
(*                                                                         *)
(* One Transition instance is modelled: the Suspense Context it creates,   *)
(* the render closure it hands to DynChild::new (one cfg branch for the    *)
(* csr/hydrate builds, one for every other build), the resources that      *)
(* count against the context, the ambient hydration cursor and the         *)
(* registry of deferred fragments.  The closure runs to completion on a    *)
(* single thread, so one evaluation is one step.                           *)
(***************************************************************************)
EXTENDS Naturals, Sequences, FiniteSets

(* ------------------------------ bounds --------------------------------- *)

\* Loads one resource may go through (first load and refetches).
MaxVersion == 2

\* Largest offset the ambient cursor is followed to on a client pass and
\* while other components take identifiers.
MaxOffset == 7

\* Largest offset the renders of a server pass are followed to.
MaxServerOffset == 10

\* Cursor offsets at which the Transition may be constructed: 0..MaxStart.
MaxStart == 1

\* register_suspense calls that are followed.
MaxRegistrations == 2

\* Identifiers the rendered children / the rendered fallback consume.
ChildIds == 2
FallbackIds == 1

(* ------------------------------ inputs --------------------------------- *)

\* The build: cfg(any(feature = "csr", feature = "hydrate")) or not.
Targets == {"csr", "hydrate", "ssr"}

\* Resources read by the children, and resources read elsewhere in the
\* scope the context was provided to.
ChildReads == {"cats"}
Resources == ChildReads \cup {"other"}

VARIABLES
    target,             \* the build the component was compiled for
    set_pending,        \* Option<SignalSetter<bool>>: TRUE when Some
    pendingSignal,      \* the value last given to the setter
    pending_resources,  \* context.pending_resources
    res,                \* per resource: [loading, value, by]; by is who
                        \* began its latest load ("children", "scope")
    prev_child,         \* the RefCell<Option<View>> of the client branch
    cached_id,          \* HydrationCtx::peek() at construction (client)
    current_id,         \* HydrationCtx::peek() at construction (server)
    cursor,             \* the ambient HydrationCtx position
    registry,           \* keys given to register_suspense, in order
    stream,             \* fragments streamed: [slot, key, html, pending]
    dirty,              \* the reactive system owes the closure a re-run
    step,               \* the operation that led to this state
    last,               \* what the latest evaluation did
    shownChildren,      \* some evaluation has returned children content
    lastFresh           \* content rendered by the latest ready evaluation

vars == <<target, set_pending, pendingSignal, pending_resources, res,
          prev_child, cached_id, current_id, cursor, registry, stream, dirty,
          step, last, shownChildren, lastFresh>>

(* ------------------------------ values --------------------------------- *)

\* A view: what it was rendered from and the resource values it shows
\* (0: the resource had no value yet).
NoValues == [x \in ChildReads |-> 0]

None == [kind |-> "None", shows |-> NoValues]

NoId == [previous |-> "", offset |-> 0]

NoEvaluation ==
    [branch |-> "none", output |-> None, trace |-> <<>>, readiness |-> TRUE,
     sets |-> <<>>, registered |-> <<>>, continued |-> <<>>, started |-> {},
     entryPending |-> 0, entryPrev |-> None, entryShown |-> FALSE,
     entryFresh |-> None, entryCursor |-> NoId]

IsClient(t) == t \in {"csr", "hydrate"}

(* ------------------------- Suspense Context ---------------------------- *)

\* SuspenseContext::new: no resource is pending.
new == 0

\* context.ready()
ready(p) == p = 0

increment(p) == p + 1

decrement(p) == p - 1

(* ------------------------- hydration cursor ---------------------------- *)

\* HydrationCtx::peek(): the position, which stays where it is.
peek(c) == c

\* HydrationCtx::continue_from(id): the position becomes id.
continue_from(c, id) == id

\* Rendering n view nodes takes n identifiers from the cursor.
TakeIds(c, n) == [c EXCEPT !.offset = @ + n]

\* current_id.to_string(): the prefix followed by the offset.
to_string(id) == <<id.previous, id.offset>>

(* ----------------------------- renderers ------------------------------- *)

NeverStarted(r) == ~r.loading /\ r.value = 0

\* orig_child(cx).into_view(cx): the children read their resources under
\* the context.  A resource read for the first time begins loading and is
\* counted; the view shows the values the resources have now.
RenderChildren(r, p, c) ==
    LET toStart == {x \in ChildReads : NeverStarted(r[x])}
    IN  [view    |-> [kind |-> "children",
                      shows |-> [x \in ChildReads |-> r[x].value]],
         res     |-> [x \in Resources |->
                        IF x \in toStart
                        THEN [r[x] EXCEPT !.loading = TRUE,
                                          !.by = "children"]
                        ELSE r[x]],
         pending |-> p + Cardinality(toStart),
         cursor  |-> TakeIds(c, ChildIds),
         started |-> toStart]

\* fallback().into_view(cx)
RenderFallback(c) ==
    [view   |-> [kind |-> "fallback", shows |-> NoValues],
     cursor |-> TakeIds(c, FallbackIds)]

\* Mutant: the setter is given the opposite value.
SetPendingInverted(b) == IF set_pending THEN <<~b>> ELSE <<>>

\* if let Some(pending) = &set_pending { pending.set(b) }
SetPending(b) == IF set_pending THEN <<b>> ELSE <<>>

SetTrace == IF set_pending THEN <<"set_pending">> ELSE <<>>

(* ------------------- the closure, csr/hydrate builds ------------------- *)

\* Mutant: one slot is reserved instead of two.
IdToReplaceOneSlot(id) == [id EXCEPT !.offset = @ + 1]

\* let mut id_to_replace = cached_id.clone(); id_to_replace.offset += 2;
IdToReplace(id) == [id EXCEPT !.offset = @ + 2]

\* Mutant: the cache is never consulted (the behaviour of Suspense).
ClientBranchNoCache(isReady, prev) ==
    IF isReady THEN "fresh" ELSE "fallback"

\* Mutant: the cache is consulted before the readiness.
ClientBranchCacheFirst(isReady, prev) ==
    IF prev # None THEN "cached"
    ELSE IF isReady THEN "fresh"
    ELSE "fallback"

\* The if / else-if-let / else chain.
ClientBranch(isReady, prev) ==
    IF isReady THEN "fresh"
    ELSE IF prev # None THEN "cached"
    ELSE "fallback"

\* Mutant: the ready branch returns the children without storing them.
ReadyBranchNoStore(r, p, c) ==
    LET rc == RenderChildren(r, p, c)
    IN  [output |-> rc.view, prev |-> prev_child, res |-> rc.res,
         pending |-> rc.pending, cursor |-> rc.cursor,
         sets |-> SetPending(FALSE), started |-> rc.started,
         trace |-> <<"children">> \o SetTrace]

\* Mutant: the ready branch hands out the cache when there is one.
ReadyBranchReusesCache(r, p, c) ==
    LET rc == RenderChildren(r, p, c)
        v  == IF prev_child # None THEN prev_child ELSE rc.view
    IN  [output |-> v, prev |-> v, res |-> rc.res,
         pending |-> rc.pending, cursor |-> rc.cursor,
         sets |-> SetPending(FALSE), started |-> rc.started,
         trace |-> <<"children", "store">> \o SetTrace]

\* if context.ready() { ... }
ReadyBranch(r, p, c) ==
    LET rc == RenderChildren(r, p, c)
    IN  [output |-> rc.view, prev |-> rc.view, res |-> rc.res,
         pending |-> rc.pending, cursor |-> rc.cursor,
         sets |-> SetPending(FALSE), started |-> rc.started,
         trace |-> <<"children", "store">> \o SetTrace]

\* Mutant: the cached branch empties the slot (take() instead of borrow()).
CachedBranchTakes(prev, r, p, c) ==
    [output |-> prev, prev |-> None, res |-> r, pending |-> p,
     cursor |-> c, sets |-> SetPending(TRUE), started |-> {},
     trace |-> SetTrace \o <<"clone_prev">>]

\* Mutant: the cached branch renders the children again.
CachedBranchRerenders(prev, r, p, c) ==
    LET rc == RenderChildren(r, p, c)
    IN  [output |-> rc.view, prev |-> prev, res |-> rc.res,
         pending |-> rc.pending, cursor |-> rc.cursor,
         sets |-> SetPending(TRUE), started |-> rc.started,
         trace |-> SetTrace \o <<"children">>]

\* else if let Some(prev_child) = &*prev_child.borrow() { ... }
CachedBranch(prev, r, p, c) ==
    [output |-> prev, prev |-> prev, res |-> r, pending |-> p,
     cursor |-> c, sets |-> SetPending(TRUE), started |-> {},
     trace |-> SetTrace \o <<"clone_prev">>]

\* Mutant: the fallback is returned without being stored.
FallbackBranchNoStore(r, p, c) ==
    LET rf == RenderFallback(c)
    IN  [output |-> rf.view, prev |-> None, res |-> r, pending |-> p,
         cursor |-> rf.cursor, sets |-> SetPending(TRUE), started |-> {},
         trace |-> SetTrace \o <<"fallback">>]

\* else { ... }
FallbackBranch(r, p, c) ==
    LET rf == RenderFallback(c)
    IN  [output |-> rf.view, prev |-> rf.view, res |-> r, pending |-> p,
         cursor |-> rf.cursor, sets |-> SetPending(TRUE), started |-> {},
         trace |-> SetTrace \o <<"fallback", "store">>]

\* One run of the closure given to DynChild::new.
ClientEvaluation(id, prev, r, p, c) ==
    LET to    == IdToReplace(id)
        c1    == continue_from(c, to)
        isR   == ready(p)
        b     == ClientBranch(isR, prev)
        e     == CASE b = "fresh"  -> ReadyBranch(r, p, c1)
                   [] b = "cached" -> CachedBranch(prev, r, p, c1)
                   [] OTHER        -> FallbackBranch(r, p, c1)
    IN  [branch |-> b, output |-> e.output, prev |-> e.prev, res |-> e.res,
         pending |-> e.pending, cursor |-> e.cursor, sets |-> e.sets,
         started |-> e.started, readiness |-> isR,
         registered |-> <<>>, continued |-> <<to>>,
         trace |-> <<"continue_from", "ready">> \o e.trace]

(* --------------------- the closure, every other build ------------------ *)

\* Mutant: the fragment is registered whatever the pending count.
ServerBranchAlwaysDefers(p) == "deferred"

\* if context.pending_resources.get() == 0 { ... } else { ... }
ServerBranch(p) == IF p = 0 THEN "inline" ELSE "deferred"

\* cx.register_suspense(context, &current_id.to_string(), ...)
register_suspense(reg, key) == Append(reg, key)

\* Mutant: the key is the cursor's position when the closure runs.
SuspenseKeyAtEvaluation(id, c) == to_string(peek(c))

\* &current_id.to_string(): the key of the deferred fragment.
SuspenseKey(id, c) == to_string(id)

\* .render_to_string(cx).to_string(): the markup of a view.
render_to_string(v) == <<"<", v.kind, v.shows, ">">>

\* Mutant: the deferred closure renders the fallback.
DeferredRenderFallback(r, p, c) ==
    LET rf == RenderFallback(c)
    IN  [html |-> render_to_string(rf.view), res |-> r, pending |-> p,
         cursor |-> rf.cursor]

\* move || { orig_child(cx).into_view(cx).render_to_string(cx).to_string() }
DeferredRender(r, p, c) ==
    LET rc == RenderChildren(r, p, c)
    IN  [html |-> render_to_string(rc.view), res |-> rc.res,
         pending |-> rc.pending, cursor |-> rc.cursor]

\* Mutant: the registry runs a closure without waiting for the context.
CanStreamAnytime(p) == TRUE

\* The registry runs a registered closure once the context is ready.
CanStream(p) == ready(p)

ServerEvaluation(id, r, p, c) ==
    LET rc == RenderChildren(r, p, c)
        b  == ServerBranch(rc.pending)
        rf == RenderFallback(rc.cursor)
    IN  [branch |-> b,
         output |-> IF b = "inline" THEN rc.view ELSE rf.view,
         prev |-> None, res |-> rc.res, pending |-> rc.pending,
         cursor |-> IF b = "inline" THEN rc.cursor ELSE rf.cursor,
         sets |-> <<>>, started |-> rc.started,
         readiness |-> (rc.pending = 0),
         registered |-> IF b = "inline" THEN <<>>
                        ELSE <<SuspenseKey(id, rc.cursor)>>,
         continued |-> <<>>,
         trace |-> <<"children", "pending_resources">> \o
                   (IF b = "inline" THEN <<>>
                    ELSE <<"register_suspense", "fallback">>)]

(* ------------------------------ actions -------------------------------- *)

Init ==
    /\ target \in Targets
    /\ set_pending \in BOOLEAN
    /\ pendingSignal = FALSE
    /\ pending_resources = new
    /\ res = [x \in Resources |-> [loading |-> FALSE, value |-> 0, by |-> "none"]]
    /\ prev_child = None
    /\ \E o \in 0..MaxStart :
          /\ cursor = [previous |-> "0-", offset |-> o]
          /\ cached_id = IF IsClient(target) THEN peek(cursor) ELSE NoId
          /\ current_id = IF IsClient(target) THEN NoId ELSE peek(cursor)
    /\ registry = <<>>
    /\ stream = <<>>
    /\ dirty = TRUE
    /\ step = "new"
    /\ last = NoEvaluation
    /\ shownChildren = FALSE
    /\ lastFresh = None

\* What an evaluation leaves behind, common to both builds.
Record(e) ==
    /\ res' = e.res
    /\ pending_resources' = e.pending
    /\ cursor' = e.cursor
    /\ dirty' = (e.pending # pending_resources)
    /\ step' = "evaluate"
    /\ last' = [branch |-> e.branch, output |-> e.output, trace |-> e.trace,
                readiness |-> e.readiness, sets |-> e.sets,
                registered |-> e.registered, continued |-> e.continued,
                started |-> e.started,
                entryPending |-> pending_resources, entryPrev |-> prev_child,
                entryShown |-> shownChildren, entryFresh |-> lastFresh,
                entryCursor |-> cursor]
    /\ shownChildren' = (shownChildren \/ e.output.kind = "children")
    /\ lastFresh' = IF e.branch \in {"fresh", "inline"} THEN e.output
                    ELSE lastFresh

\* The reactive system runs the closure (csr/hydrate).
EvaluateClient ==
    /\ IsClient(target)
    /\ LET e == ClientEvaluation(cached_id, prev_child, res,
                                 pending_resources, cursor)
       IN  /\ e.cursor.offset <= MaxOffset
           /\ prev_child' = e.prev
           /\ pendingSignal' = IF e.sets = <<>> THEN pendingSignal
                               ELSE e.sets[Len(e.sets)]
           /\ Record(e)
    /\ UNCHANGED <<target, set_pending, cached_id, current_id, registry,
                   stream>>

\* The closure runs on a build without csr and hydrate.
EvaluateServer ==
    /\ ~IsClient(target)
    /\ LET e == ServerEvaluation(current_id, res, pending_resources, cursor)
       IN  /\ e.cursor.offset <= MaxServerOffset
           /\ Len(registry) + Len(e.registered) <= MaxRegistrations
           /\ registry' = IF e.registered = <<>> THEN registry
                          ELSE register_suspense(registry, e.registered[1])
           /\ Record(e)
    /\ UNCHANGED <<target, set_pending, pendingSignal, prev_child,
                   cached_id, current_id, stream>>

\* A resource under the context begins a load (a first read elsewhere in
\* the scope, or a refetch).
Start(x) ==
    /\ ~res[x].loading
    /\ res[x].value < MaxVersion
    /\ res' = [res EXCEPT ![x].loading = TRUE, ![x].by = "scope"]
    /\ pending_resources' = increment(pending_resources)
    /\ dirty' = TRUE
    /\ step' = "start"
    /\ UNCHANGED <<target, set_pending, pendingSignal, prev_child, cached_id,
                   current_id, cursor, registry, stream, last,
                   shownChildren, lastFresh>>

\* A load settles, with a value or an error.
Settle(x) ==
    /\ res[x].loading
    /\ res' = [res EXCEPT ![x].loading = FALSE, ![x].value = @ + 1]
    /\ pending_resources' = decrement(pending_resources)
    /\ dirty' = TRUE
    /\ step' = "settle"
    /\ UNCHANGED <<target, set_pending, pendingSignal, prev_child, cached_id,
                   current_id, cursor, registry, stream, last,
                   shownChildren, lastFresh>>

\* Another component takes the next identifier from the ambient cursor.
NextId ==
    /\ cursor.offset < MaxOffset
    /\ cursor' = TakeIds(cursor, 1)
    /\ step' = "id"
    /\ UNCHANGED <<target, set_pending, pendingSignal, pending_resources,
                   res, prev_child, cached_id, current_id, registry, stream,
                   dirty, last, shownChildren, lastFresh>>

\* Registrations whose fragment has been streamed.
Streamed == {stream[j].slot : j \in 1..Len(stream)}

\* The framework runs the closure of registration i and streams its markup
\* under the registration's key.
Resolve(i) ==
    /\ ~IsClient(target)
    /\ i \notin Streamed
    /\ CanStream(pending_resources)
    /\ LET d == DeferredRender(res, pending_resources, cursor)
       IN  /\ d.cursor.offset <= MaxServerOffset
           /\ stream' = Append(stream, [slot |-> i, key |-> registry[i],
                                        html |-> d.html,
                                        pending |-> pending_resources])
           /\ res' = d.res
           /\ pending_resources' = d.pending
           /\ cursor' = d.cursor
    /\ step' = "stream"
    /\ UNCHANGED <<target, set_pending, pendingSignal, prev_child, cached_id,
                   current_id, registry, dirty, last, shownChildren,
                   lastFresh>>

Next ==
    \/ EvaluateClient
    \/ EvaluateServer
    \/ \E x \in Resources : Start(x)
    \/ \E x \in Resources : Settle(x)
    \/ NextId
    \/ \E i \in 1..Len(registry) : Resolve(i)

Spec == Init /\ [][Next]_vars

\* The client builds under fair scheduling: every load settles, and the
\* reactive system runs the closure again after a change of the pending
\* counter.  The closure resets the cursor on entry, so the position it is
\* constructed at and the identifiers other components take are left out.
EvaluateDirty == dirty /\ EvaluateClient

ClientInit == Init /\ IsClient(target) /\ cursor.offset = 0

ClientNext ==
    \/ EvaluateClient
    \/ \E x \in Resources : Start(x)
    \/ \E x \in Resources : Settle(x)

FairSpec ==
    /\ ClientInit
    /\ [][ClientNext]_vars
    /\ \A x \in Resources : WF_vars(Settle(x))
    /\ WF_vars(EvaluateDirty)

(* ------------------------------ claims --------------------------------- *)

\* The state is the one an evaluation of the closure has just left.
Evaluated == step = "evaluate"

ClientEvaluated == Evaluated /\ IsClient(target)

ServerEvaluated == Evaluated /\ ~IsClient(target)

\* The values the resources read by the children have now.
CurrentValues == [x \in ChildReads |-> res[x].value]

Occurs(op, tr) == \E i \in 1..Len(tr) : tr[i] = op

\* C1: on the client, an evaluation that finds the context not ready after
\* an earlier evaluation found it ready returns exactly the content the
\* latest ready evaluation rendered from the children, and gives true to
\* the pending observer when there is one.
C1_NotReadyReturnsLastFresh ==
    (ClientEvaluated /\ ~last.readiness /\ last.entryFresh # None) =>
        /\ last.output = last.entryFresh
        /\ last.output.kind = "children"
        /\ set_pending => (last.sets = <<TRUE>> /\ pendingSignal = TRUE)

\* C1's case, with an observer and with cached content that is stale: the
\* resource the children read has a newer value than the content shows.
C1_Witness ==
    /\ ClientEvaluated /\ ~last.readiness /\ last.entryFresh # None
    /\ set_pending
    /\ last.output.shows # CurrentValues

\* C2: on the client, once an evaluation has returned content rendered
\* from the children, no later evaluation returns or renders the fallback.
C2_NoFallbackAfterChildren ==
    (ClientEvaluated /\ last.entryShown) =>
        /\ last.output.kind # "fallback"
        /\ ~Occurs("fallback", last.trace)

\* C2's case: children were shown, then an evaluation found resources
\* pending again.
C2_Witness ==
    /\ ClientEvaluated /\ last.entryShown
    /\ ~last.readiness
    /\ last.entryPending > 0


\* C3: every evaluation made while a resource that began loading in the
\* children's first render is still loading shows the fallback.
C3_FallbackWhileLoading ==
    (Evaluated /\ \E x \in ChildReads :
                    /\ res[x].by = "children"
                    /\ res[x].loading) =>
        last.output.kind = "fallback"

C5_ReadyRendersAnew ==
    (ClientEvaluated /\ last.readiness) =>
        /\ Occurs("children", last.trace)
        /\ last.output = [kind |-> "children", shows |-> CurrentValues]
        /\ prev_child = last.output
        /\ set_pending => (last.sets = <<FALSE>> /\ pendingSignal = FALSE)

\* C5's case: a cache existed whose content differs from the new result.
C5_Witness ==
    /\ ClientEvaluated /\ last.readiness
    /\ last.entryPrev.kind = "children"
    /\ last.entryPrev # last.output
    /\ set_pending

\* C6: on the client, an evaluation that finds the context not ready and
\* the cache slot empty calls the fallback renderer, returns its result,
\* stores it in the cache slot and gives true to the pending observer.
C6_NotReadyNoCacheFallback ==
    (ClientEvaluated /\ ~last.readiness /\ last.entryPrev = None) =>
        /\ Occurs("fallback", last.trace)
        /\ last.output.kind = "fallback"
        /\ prev_child = last.output
        /\ set_pending => (last.sets = <<TRUE>> /\ pendingSignal = TRUE)

\* C6's case: a resource was loading before the closure first ran.
C6_Witness ==
    /\ ClientEvaluated /\ ~last.readiness /\ last.entryPrev = None
    /\ last.entryPending > 0
    /\ set_pending


\* C7: on the server, an evaluation whose pending count is above zero after
\* rendering the children makes exactly one register_suspense call, keyed
\* by the identifier peeked when the Transition was entered, and returns
\* the fallback.
C7_PendingRegistersOnce ==
    (ServerEvaluated /\ pending_resources > 0) =>
        /\ Len(last.registered) = 1
        /\ last.registered[1] = to_string(current_id)
        /\ registry # <<>> /\ registry[Len(registry)] = last.registered[1]
        /\ Len(SelectSeq(last.trace, LAMBDA op : op = "register_suspense")) = 1
        /\ last.output.kind = "fallback"

\* C7's case: resources are pending after the children's render, and the
\* cursor had moved on from the peeked position when the closure ran.
C7_Witness ==
    /\ ServerEvaluated /\ pending_resources > 0
    /\ last.entryCursor # current_id
    /\ Occurs("children", last.trace)

\* C8: on the server, an evaluation whose pending count is zero after
\* rendering the children registers nothing, does not call the fallback
\* renderer and returns the children's content.
C8_ReadyInline ==
    (ServerEvaluated /\ pending_resources = 0) =>
        /\ last.registered = <<>>
        /\ ~Occurs("register_suspense", last.trace)
        /\ ~Occurs("fallback", last.trace)
        /\ last.output = [kind |-> "children", shows |-> CurrentValues]

\* C8's case: the children's resource has settled and nothing is pending
\* after the render.
C8_Witness ==
    /\ ServerEvaluated /\ pending_resources = 0
    /\ Occurs("children", last.trace)
    /\ \A x \in ChildReads : res[x].value > 0

\* The position the Transition peeked at construction, on either build.
PeekedId == IF IsClient(target) THEN cached_id ELSE current_id

\* C9: from the same state, the cursor operations of a server pass are
\* those of a client pass, and both leave the cursor at the same position.
C9_SameCursorOperations ==
    LET cl == ClientEvaluation(PeekedId, prev_child, res,
                               pending_resources, cursor)
        sv == ServerEvaluation(PeekedId, res, pending_resources, cursor)
    IN  /\ cl.continued = sv.continued
        /\ cl.cursor = sv.cursor

\* The place of the first op of ops in a trace; 0 when there is none.
FirstOf(ops, tr) ==
    IF \E i \in 1..Len(tr) : tr[i] \in ops
    THEN CHOOSE i \in 1..Len(tr) :
            /\ tr[i] \in ops
            /\ \A j \in 1..(i - 1) : tr[j] \notin ops
    ELSE 0

\* C10: in every evaluation the children are rendered before the readiness
\* (or the pending count) is read, so the value read counts every resource
\* the render began to load.
C10_ChildrenBeforeReadiness ==
    Evaluated =>
        /\ FirstOf({"children"}, last.trace) > 0
        /\ FirstOf({"children"}, last.trace)
             < FirstOf({"ready", "pending_resources"}, last.trace)
        /\ last.readiness = ready(last.entryPending
                                   + Cardinality(last.started))

\* C11: on the client with an observer, every evaluation calls the observer
\* exactly once; the value given (and left in the signal) is true exactly
\* when the evaluation returned cached or fallback content and false
\* exactly when it returned freshly rendered children.
C11_ObserverTracksOutput ==
    (ClientEvaluated /\ set_pending) =>
        /\ Len(last.sets) = 1
        /\ Len(SelectSeq(last.trace, LAMBDA op : op = "set_pending")) = 1
        /\ pendingSignal = last.sets[1]
        /\ last.sets[1] = TRUE <=>
              (\/ last.output.kind = "fallback"
               \/ (last.output = last.entryPrev
                   /\ ~Occurs("children", last.trace)))
        /\ last.sets[1] = FALSE <=>
              (/\ Occurs("children", last.trace)
               /\ last.output = [kind |-> "children", shows |-> CurrentValues])

\* C11's case: the observer went from false to true because an evaluation
\* returned the cached content.
C11_Witness ==
    /\ ClientEvaluated /\ set_pending
    /\ last.branch = "cached"
    /\ last.sets = <<TRUE>>
    /\ last.entryFresh # None

\* C12: on every build, an evaluation that outputs fallback or stale
\* content instead of freshly rendered children gives true to the pending
\* observer when one was supplied.
C12_ObserverTrueWhenNotFresh ==
    (/\ Evaluated /\ set_pending
     /\ \/ last.output.kind = "fallback"
        \/ ~Occurs("children", last.trace)) =>
        last.sets = <<TRUE>>

RECURSIVE SumOver(_, _)
SumOver(f, S) ==
    IF S = {} THEN 0
    ELSE LET x == CHOOSE y \in S : TRUE
         IN  f[x] + SumOver(f, S \ {x})

\* Loads settled so far, and loads begun so far, under the context.
Settled(r) == SumOver([x \in Resources |-> r[x].value], Resources)

Started(r) ==
    SumOver([x \in Resources |->
                r[x].value + (IF r[x].loading THEN 1 ELSE 0)], Resources)

\* C13: the pending count is never negative and is the number of starts
\* without a settle; the readiness test of the closure (ready() on the
\* client, pending_resources == 0 after the children's render on the
\* server) comes out true exactly when settles equal starts; a new context
\* is ready.
C13_ReadyIffBalanced ==
    LET cl == ClientEvaluation(PeekedId, prev_child, res,
                               pending_resources, cursor)
        sv == ServerEvaluation(PeekedId, res, pending_resources, cursor)
    IN  /\ pending_resources >= 0
        /\ pending_resources = Started(res) - Settled(res)
        /\ (cl.readiness /\ cl.branch = "fresh") <=>
              (Settled(res) = Started(res))
        /\ (sv.readiness /\ sv.branch = "inline") <=>
              (Settled(sv.res) = Started(sv.res))
        /\ step = "new" => (pending_resources = 0 /\ ready(pending_resources))

\* C13's case: several loads have begun and all have settled, and loads
\* of both resources took part.
C13_Witness ==
    /\ Evaluated
    /\ Settled(res) = Started(res)
    /\ \A x \in Resources : res[x].value > 0

\* C16: on the client, once the closure has run the cache slot is never
\* empty and holds exactly the content the latest evaluation returned; the
\* slot is empty only before the first evaluation.
C16_CacheHoldsLastOutput ==
    IsClient(target) =>
        /\ (prev_child = None) <=> (last.branch = "none")
        /\ last.branch # "none" => prev_child = last.output
        /\ Evaluated => (prev_child # None /\ prev_child = last.output)

\* C16's case: an evaluation found a full slot (holding the fallback) and
\* replaced its content.
C16_Witness ==
    /\ ClientEvaluated
    /\ last.entryPrev.kind = "fallback"
    /\ prev_child.kind = "children"
    /\ prev_child = last.output

\* C17: on the client, an evaluation that finds the context not ready and
\* the cache slot full calls neither the children renderer nor the
\* fallback renderer, leaves the slot as it was and does not change the
\* pending count.
C17_CachedBranchFrame ==
    (ClientEvaluated /\ ~last.readiness /\ last.entryPrev # None) =>
        /\ ~Occurs("children", last.trace)
        /\ ~Occurs("fallback", last.trace)
        /\ ~Occurs("store", last.trace)
        /\ prev_child = last.entryPrev
        /\ pending_resources = last.entryPending
        /\ last.started = {}

\* C17's case: the cached branch ran while the children's resource had
\* never been read, so a render of the children would have begun a load.
C17_Witness ==
    /\ ClientEvaluated /\ ~last.readiness /\ last.entryPrev # None
    /\ \E x \in ChildReads : NeverStarted(res[x])

\* C19: on the client, every evaluation begins by resetting the cursor to
\* the position peeked at construction with its offset raised by 2,
\* wherever the cursor stood and whichever branch is taken; the stored
\* position itself never changes.
C19_CursorResetOnEntry ==
    [][/\ cached_id' = cached_id
       /\ (step' = "evaluate" /\ IsClient(target)) =>
            /\ last'.trace[1] = "continue_from"
            /\ last'.continued =
                  <<[previous |-> cached_id.previous,
                     offset |-> cached_id.offset + 2]>>
            /\ last'.entryCursor = cursor
            /\ cursor'.previous = cached_id.previous
            /\ cursor'.offset \in
                  {cached_id.offset + 2 + n : n \in {0, ChildIds, FallbackIds}}
      ]_vars

\* C19's case: the cursor had moved past the reset position before the
\* evaluation, which took the cached branch.
C19_Witness ==
    /\ ClientEvaluated
    /\ last.entryCursor.offset > cached_id.offset + 2
    /\ last.branch = "cached"
    /\ cursor.offset = cached_id.offset + 2

\* C14: on the server, the registered closure, run once the resources have
\* settled, renders the children and not the fallback, and its markup is
\* the markup of the children rendered directly in that state.
C14_DeferredRendersChildren ==
    (step = "stream") =>
        LET f == stream[Len(stream)]
        IN  /\ f.html = render_to_string([kind |-> "children",
                                          shows |-> CurrentValues])
            /\ f.html # render_to_string(RenderFallback(cursor).view)
            /\ f.html = render_to_string(
                           RenderChildren(res, pending_resources, cursor).view)

\* C14's case: the fallback went out while the children's resource was
\* loading; the closure ran after it settled and shows its value.
C14_Witness ==
    /\ step = "stream"
    /\ last.branch = "deferred"
    /\ \A x \in ChildReads : res[x].value > 0 /\ ~res[x].loading
    /\ stream[Len(stream)].html[3] # NoValues

\* C15: on the server, a fragment is streamed only for a registration made
\* by an evaluation that output the fallback under the same identifier,
\* only in a state where the pending count is zero, and at most once per
\* registration; while a resource stays unsettled nothing is streamed.
C15_StreamDiscipline ==
    /\ [](\A j \in 1..Len(stream) :
            /\ stream[j].pending = 0
            /\ stream[j].slot \in 1..Len(registry)
            /\ stream[j].key = registry[stream[j].slot]
            /\ \A k \in 1..Len(stream) :
                  stream[k].slot = stream[j].slot => k = j)
    /\ [][/\ Len(stream') > Len(stream) =>
                (pending_resources = 0 /\ Len(stream') = Len(stream) + 1)
          /\ Len(registry') > Len(registry) =>
                /\ last'.output.kind = "fallback"
                /\ registry' = Append(registry, to_string(current_id))
          /\ Len(registry') >= Len(registry)
         ]_vars

\* C15's case: two evaluations registered a fragment each; the first was
\* streamed once the resources had settled, under the identifier the
\* fallback went out with, and the second waits while a resource loads
\* again.
C15_Witness ==
    /\ Len(registry) = 2
    /\ Len(stream) = 1
    /\ stream[1].key = to_string(current_id)
    /\ last.output.kind = "fallback"
    /\ pending_resources > 0

\* C18: on the server, however often the closure runs while resources are
\* pending, at most one fragment is registered for the context and its
\* placeholder identifier.
C18_OneRegistration ==
    ~IsClient(target) =>
        \A i, j \in 1..Len(registry) : registry[i] = registry[j] => i = j

====
